---- MODULE Spec2Model ----
(***************************************************************************)
(* Model of muwanx's asset packaging core (src/src/muwanx/utils.py):       *)
(* the path canonicaliser (_strip_leading_dotdot, _make_zip_safe_path),    *)
(* the asset collector (collect_spec_assets), the reference rewriter       *)
(* (_rewrite_xml_paths) and the container serializer (to_zip_deflated).    *)
(*                                                                         *)
(* A Python str is a sequence of one-character strings, so that            *)
(* <<"." , "." , "/" , "a">> is the path "../a".  The posixpath functions  *)
(* the code calls are written out as CPython computes them.  os.path is    *)
(* posixpath (the POSIX build of the program).                             *)
(***************************************************************************)
EXTENDS Naturals, Sequences, FiniteSets, TLC

VARIABLES
    path,       \* the string handed to the canonicaliser
    cpc,        \* position of the canonicaliser caller
    out1,       \* result of the first call
    out2,       \* result of the call on out1
    xml_in,     \* _rewrite_xml_paths: the parsed xml_str argument
    dirs,       \* _rewrite_xml_paths: the mesh_dir and texture_dir arguments
    xml_out,    \* _rewrite_xml_paths: the returned document
    rpc,        \* position of the caller of _rewrite_xml_paths
    spec,       \* the MjSpec description handed to the collector and the serializer
    orig,       \* the description as it was before any call (the tests' snapshot)
    fs,         \* the regular files on disk: location -> [bytes, readable]
    assets,     \* the dict returned by collect_spec_assets
    cstate,     \* collect_spec_assets: "none", "returned" or "raised"
    zip,        \* the entries to_zip_deflated wrote to its target
    zstate,     \* to_zip_deflated: "none", "written" or "raised"; after a
                \* second call "rewritten" or "reraised"
    file,       \* to_zip_deflated: the target, a path string or a byte stream
    now,        \* the wall clock, in seconds
    zip2,       \* the archive written by a second call of to_zip_deflated
    _projects,  \* Builder._projects: the list of ProjectConfig
    calls,      \* the add_project calls made so far: name and id argument
    dist,       \* the output directory of Builder.build: config.json and files
    bstate,     \* Builder.build: "none", "built" or the exception it raised
    exc,        \* the exception the last call on the builder or a handle raised
    threads,    \* the concurrent invocations of to_zip_deflated: position and locals
    ac_assets,  \* the dict returned by asset_collector.collect_spec_assets
    ac_state    \* asset_collector.collect_spec_assets: "none", "returned" or "raised"

(***************************************************************************)
(* str helpers                                                             *)
(***************************************************************************)
SLASH == "/"
BACKSLASH == "\\"
DOT == <<".">>
DOTDOT == <<".", ".">>

\* s.startswith(prefix)
startswith(s, prefix) ==
    /\ Len(prefix) <= Len(s)
    /\ SubSeq(s, 1, Len(prefix)) = prefix

\* s.replace(old, new) for one-character old and new
replace(s, old, new) == [i \in 1..Len(s) |-> IF s[i] = old THEN new ELSE s[i]]

\* s.find(sep, start), 1-based; 0 when sep does not occur from start on
RECURSIVE find(_, _, _)
find(s, sep, start) ==
    IF start > Len(s) THEN 0
    ELSE IF s[start] = sep THEN start
    ELSE find(s, sep, start + 1)

\* s.rfind(sep, 0, end), 1-based; 0 when sep does not occur up to end
RECURSIVE rfind(_, _, _)
rfind(s, sep, end) ==
    IF end < 1 THEN 0
    ELSE IF s[end] = sep THEN end
    ELSE rfind(s, sep, end - 1)

\* s.split(sep) for a one-character sep: always at least one part
RECURSIVE split(_, _)
split_at(s, sep, i) ==
    IF i = 0 THEN <<s>>
    ELSE <<SubSeq(s, 1, i - 1)>> \o split(SubSeq(s, i + 1, Len(s)), sep)
split(s, sep) == split_at(s, sep, find(s, sep, 1))

\* sep.join(parts) for a one-character sep
RECURSIVE strjoin(_, _)
strjoin(sep, parts) ==
    IF Len(parts) = 0 THEN <<>>
    ELSE IF Len(parts) = 1 THEN parts[1]
    ELSE parts[1] \o <<sep>> \o strjoin(sep, Tail(parts))

(***************************************************************************)
(* posixpath                                                               *)
(***************************************************************************)
\* posixpath.isabs(s): s.startswith('/')
isabs(s) == startswith(s, <<SLASH>>)

\* posixpath.basename(p): p[p.rfind('/') + 1:]
basename(p) == SubSeq(p, rfind(p, SLASH, Len(p)) + 1, Len(p))

\* posixpath.join(a, b)
join(a, b) ==
    IF startswith(b, <<SLASH>>) THEN b
    ELSE IF a = <<>> \/ a[Len(a)] = SLASH THEN a \o b
    ELSE a \o <<SLASH>> \o b

\* The loop of posixpath.normpath over the components, new_comps so far in acc
RECURSIVE normcomps(_, _, _)
normcomps(comps, acc, initial_slashes) ==
    IF comps = <<>> THEN acc
    ELSE LET comp == Head(comps)
             rest == Tail(comps)
         IN  IF comp = <<>> \/ comp = DOT
               THEN normcomps(rest, acc, initial_slashes)
             ELSE IF \/ comp # DOTDOT
                     \/ (initial_slashes = 0 /\ acc = <<>>)
                     \/ (acc # <<>> /\ acc[Len(acc)] = DOTDOT)
               THEN normcomps(rest, Append(acc, comp), initial_slashes)
             ELSE IF acc # <<>>
               THEN normcomps(rest, SubSeq(acc, 1, Len(acc) - 1), initial_slashes)
             ELSE normcomps(rest, acc, initial_slashes)

\* posixpath.normpath(p)
normpath(p) ==
    IF p = <<>> THEN DOT
    ELSE LET initial_slashes ==
                 IF ~ startswith(p, <<SLASH>>) THEN 0
                 ELSE IF startswith(p, <<SLASH, SLASH>>)
                         /\ ~ startswith(p, <<SLASH, SLASH, SLASH>>) THEN 2
                 ELSE 1
             comps == normcomps(split(p, SLASH), <<>>, initial_slashes)
             body == strjoin(SLASH, comps)
             res == [i \in 1..initial_slashes |-> SLASH] \o body
         IN  IF res = <<>> THEN DOT ELSE res

(***************************************************************************)
(* Path Canonicalizer                                                      *)
(***************************************************************************)
\* A variant that removes one leading ".." only
pop_one_leading_dotdot(parts) ==
    IF parts # <<>> /\ Head(parts) = DOTDOT THEN Tail(parts) ELSE parts

\* while parts and parts[0] == "..": parts.pop(0)
RECURSIVE pop_leading_dotdot(_)
pop_leading_dotdot(parts) ==
    IF parts # <<>> /\ Head(parts) = DOTDOT
    THEN pop_leading_dotdot(Tail(parts))
    ELSE parts

_strip_leading_dotdot(p) ==
    LET normalized == normpath(p)
    IN  IF normalized = DOT THEN <<>>
        ELSE LET parts == pop_leading_dotdot(split(normalized, SLASH))
             IN  IF parts # <<>> THEN strjoin(SLASH, parts) ELSE <<>>

\* The is_absolute test of _make_zip_safe_path, on the separator-normalised path
is_absolute(posix_path) ==
    \/ isabs(posix_path)
    \/ (Len(posix_path) >= 3 /\ posix_path[2] = ":" /\ posix_path[3] = SLASH)

_make_zip_safe_path(p) ==
    LET posix_path == replace(p, BACKSLASH, SLASH)
    IN  IF is_absolute(posix_path) THEN basename(posix_path)
        ELSE _strip_leading_dotdot(posix_path)

(***************************************************************************)
(* Reference Rewriter.  An XML document is the list, in document order, of *)
(* the elements root.iter() visits (the root and all its descendants);     *)
(* an element is its tag and its attrib dictionary.  The text returned by  *)
(* ET.tostring is kept in this parsed form: an attribute value written by  *)
(* ET.tostring is read back unchanged by ET.fromstring.                    *)
(***************************************************************************)
Elem(tag, attrib) == [tag |-> tag, attrib |-> attrib]

\* elem.get(name): None is the empty string here, the code tests only `if f`
get(elem, name) ==
    IF name \in DOMAIN elem.attrib THEN elem.attrib[name] ELSE <<>>

\* elem.set(name, value)
set(elem, name, value) ==
    [elem EXCEPT !.attrib =
        [a \in DOMAIN elem.attrib \cup {name} |->
            IF a = name THEN value ELSE elem.attrib[a]]]

\* elem.attrib.pop(name, None)
pop(elem, name) ==
    [elem EXCEPT !.attrib = [a \in DOMAIN elem.attrib \ {name} |-> elem.attrib[a]]]

_TEX_FILE_ATTRS ==
    <<"file", "fileup", "fileback", "filedown", "filefront", "fileleft", "fileright">>

\* rel = posixpath.join(dir, f) if dir else f
rel_path(dir_hint, f) == IF dir_hint # <<>> THEN join(dir_hint, f) ELSE f

\* The compiler pass without the pop of texturedir
pop_compiler_meshdir_only(doc) ==
    [i \in 1..Len(doc) |->
        IF doc[i].tag = "compiler" THEN pop(doc[i], "meshdir") ELSE doc[i]]

\* for compiler in root.iter("compiler"): pop meshdir, pop texturedir
pop_compiler_dirs(doc) ==
    [i \in 1..Len(doc) |->
        IF doc[i].tag = "compiler"
        THEN pop(pop(doc[i], "meshdir"), "texturedir")
        ELSE doc[i]]

\* f = elem.get(attr); if f: elem.set(attr, _make_zip_safe_path(rel))
rewrite_attr(elem, attr, dir_hint) ==
    LET f == get(elem, attr)
    IN  IF f # <<>>
        THEN set(elem, attr, _make_zip_safe_path(rel_path(dir_hint, f)))
        ELSE elem

\* for mesh in root.iter("mesh")
rewrite_meshes(doc, mesh_dir) ==
    [i \in 1..Len(doc) |->
        IF doc[i].tag = "mesh" THEN rewrite_attr(doc[i], "file", mesh_dir)
        ELSE doc[i]]

\* A variant of the texture pass that rewrites the file attribute only
rewrite_tex_file_only(elem, k, texture_dir) == rewrite_attr(elem, "file", texture_dir)

\* for attr in _TEX_FILE_ATTRS, from the k-th on
RECURSIVE rewrite_tex_attrs(_, _, _)
rewrite_tex_attrs(elem, k, texture_dir) ==
    IF k > Len(_TEX_FILE_ATTRS) THEN elem
    ELSE rewrite_tex_attrs(rewrite_attr(elem, _TEX_FILE_ATTRS[k], texture_dir),
                           k + 1, texture_dir)

\* for tex in root.iter("texture")
rewrite_textures(doc, texture_dir) ==
    [i \in 1..Len(doc) |->
        IF doc[i].tag = "texture" THEN rewrite_tex_attrs(doc[i], 1, texture_dir)
        ELSE doc[i]]

\* for tag in ("hfield", "skin"): for elem in root.iter(tag)
rewrite_hfields_skins(doc) ==
    [i \in 1..Len(doc) |->
        IF doc[i].tag \in {"hfield", "skin"}
        THEN rewrite_attr(doc[i], "file", <<>>)
        ELSE doc[i]]

_rewrite_xml_paths(doc, mesh_dir, texture_dir) ==
    rewrite_hfields_skins(
        rewrite_textures(
            rewrite_meshes(pop_compiler_dirs(doc), mesh_dir),
            texture_dir))

(***************************************************************************)
(* The filesystem, as os.path.isfile and Path.read_bytes see it.  A        *)
(* location is the list of names from the root; Directories are the        *)
(* directories on disk and DOMAIN files the regular files.  A path is      *)
(* resolved name by name, as the kernel does: "" and "." stay, ".." goes   *)
(* to the parent, a name must exist, and only a directory can be walked    *)
(* through.                                                                *)
(***************************************************************************)
Directories == { <<>>, << <<"d">> >>, << <<"d">>, <<"h">> >> }
Cwd == <<>>

\* What is on disk at a location: files holds the regular files, and the
\* directories made after the start
Dir == [dir |-> TRUE]
isdir_at(files, loc) ==
    loc \in Directories \/ (loc \in DOMAIN files /\ "dir" \in DOMAIN files[loc])
isfile_at(files, loc) == loc \in DOMAIN files /\ "bytes" \in DOMAIN files[loc]
exists_at(files, loc) == isdir_at(files, loc) \/ isfile_at(files, loc)

RECURSIVE walk(_, _, _)
walk(files, cur, comps) ==
    IF comps = <<>> THEN <<TRUE, cur>>
    ELSE IF ~ isdir_at(files, cur) THEN <<FALSE, cur>>
    ELSE LET comp == Head(comps)
         IN  IF comp = <<>> \/ comp = DOT THEN walk(files, cur, Tail(comps))
             ELSE IF comp = DOTDOT
               THEN walk(files, SubSeq(cur, 1, Len(cur) - 1), Tail(comps))
             ELSE IF exists_at(files, Append(cur, comp))
               THEN walk(files, Append(cur, comp), Tail(comps))
             ELSE <<FALSE, cur>>

\* os.stat(full): whether the path resolves, and the location it names, from
\* the root if it is absolute, else from Cwd
os_stat(files, full) ==
    IF full = <<>> THEN <<FALSE, <<>>>>
    ELSE walk(files, IF isabs(full) THEN <<>> ELSE Cwd, split(full, SLASH))

\* os.path.isfile(full), st being os_stat of full
isfile(files, st) == st[1] /\ isfile_at(files, st[2])

\* Path(full).read_bytes() raises when the file cannot be read
can_read(files, st) == files[st[2]].readable

\* Path(full).read_bytes()
read_bytes(files, st) == files[st[2]].bytes

(***************************************************************************)
(* dict[str, ...] in insertion order: a sequence of <<key, value>>         *)
(***************************************************************************)
dict_keys(d) == {d[i][1] : i \in 1..Len(d)}

\* d[key]
dict_get(d, key) == d[CHOOSE i \in 1..Len(d) : d[i][1] = key][2]

\* d[key] = value
dict_set(d, key, value) ==
    IF key \in dict_keys(d)
    THEN [i \in 1..Len(d) |-> IF d[i][1] = key THEN <<key, value>> ELSE d[i]]
    ELSE Append(d, <<key, value>>)

(***************************************************************************)
(* Asset Collector.  A collection in progress is the dict so far and       *)
(* whether a read has raised.                                              *)
(***************************************************************************)
Collecting(d, raised) == [assets |-> d, raised |-> raised]

\* _read with full = rel: the base directory is not joined
_read_without_base_dir(files, base_dir, acc, dir_hint, filename) ==
    IF acc.raised \/ filename = <<>> THEN acc
    ELSE LET rel == rel_path(dir_hint, filename)
             st == os_stat(files, rel)
         IN  IF ~ isfile(files, st) THEN acc
             ELSE IF ~ can_read(files, st) THEN Collecting(acc.assets, TRUE)
             ELSE Collecting(
                      dict_set(acc.assets, _make_zip_safe_path(rel),
                               read_bytes(files, st)),
                      FALSE)

\* _read(dir_hint, filename), on the collection acc
_read(files, base_dir, acc, dir_hint, filename) ==
    IF acc.raised \/ filename = <<>> THEN acc
    ELSE LET rel == rel_path(dir_hint, filename)
             full == join(base_dir, rel)
             st == os_stat(files, full)
         IN  IF ~ isfile(files, st) THEN acc
             ELSE IF ~ can_read(files, st) THEN Collecting(acc.assets, TRUE)
             ELSE Collecting(
                      dict_set(acc.assets, _make_zip_safe_path(rel),
                               read_bytes(files, st)),
                      FALSE)

\* for x in names: _read(dir_hint, x), from the k-th on
RECURSIVE read_each(_, _, _, _, _, _)
read_each(files, base_dir, acc, dir_hint, names, k) ==
    IF k > Len(names) THEN acc
    ELSE read_each(files, base_dir,
                   _read(files, base_dir, acc, dir_hint, names[k]),
                   dir_hint, names, k + 1)

\* for texture in spec.textures: the file, then the cube faces by index
RECURSIVE read_textures(_, _, _, _, _, _)
read_textures(files, base_dir, acc, texture_dir, textures, k) ==
    IF k > Len(textures) THEN acc
    ELSE read_textures(files, base_dir,
             read_each(files, base_dir,
                       _read(files, base_dir, acc, texture_dir, textures[k].file),
                       texture_dir, textures[k].cubefiles, 1),
             texture_dir, textures, k + 1)

collect_spec_assets(s, files) ==
    LET base_dir == s.modelfiledir
        mesh_dir == s.meshdir
        texture_dir == s.texturedir
        a1 == read_each(files, base_dir, Collecting(<<>>, FALSE), mesh_dir, s.meshes, 1)
        a2 == read_textures(files, base_dir, a1, texture_dir, s.textures, 1)
        a3 == read_each(files, base_dir, a2, <<>>, s.hfields, 1)
    IN  read_each(files, base_dir, a3, <<>>, s.skins, 1)

(***************************************************************************)
(* The description library (mujoco), at its interface: spec.to_xml()       *)
(* writes the model name, the compiler hints and one element for each      *)
(* declaration with its file references as stored, and may normalise the   *)
(* description's directory hints by appending a trailing slash.            *)
(***************************************************************************)
CubeFaceAttrs ==
    <<"fileright", "fileleft", "fileup", "filedown", "filefront", "fileback">>

\* The attribute name :> value, or no attribute when the value is empty
attr_if(name, value) == IF value = <<>> THEN <<>> ELSE name :> value

with_trailing_slash(dir) ==
    IF dir = <<>> \/ dir[Len(dir)] = SLASH THEN dir ELSE dir \o <<SLASH>>

to_xml_side_effect(s, normalise) ==
    IF normalise
    THEN [s EXCEPT !.meshdir = with_trailing_slash(s.meshdir),
                   !.texturedir = with_trailing_slash(s.texturedir)]
    ELSE s

RECURSIVE cube_attrs(_, _)
cube_attrs(cubefiles, k) ==
    IF k > Len(cubefiles) THEN <<>>
    ELSE attr_if(CubeFaceAttrs[k], cubefiles[k]) @@ cube_attrs(cubefiles, k + 1)

to_xml(s) ==
    << Elem("mujoco", "model" :> s.modelname),
       Elem("compiler", attr_if("meshdir", s.meshdir)
                            @@ attr_if("texturedir", s.texturedir)
                            @@ ("angle" :> <<"r", "a", "d">>)) >>
    \o [i \in 1..Len(s.meshes) |-> Elem("mesh", attr_if("file", s.meshes[i]))]
    \o [i \in 1..Len(s.textures) |->
           Elem("texture", attr_if("file", s.textures[i].file)
                               @@ cube_attrs(s.textures[i].cubefiles, 1))]
    \o [i \in 1..Len(s.hfields) |-> Elem("hfield", attr_if("file", s.hfields[i]))]
    \o [i \in 1..Len(s.skins) |-> Elem("skin", attr_if("file", s.skins[i]))]

(***************************************************************************)
(* Container Serializer.  The value of a files_to_zip item is bytes read   *)
(* from disk or the description text.                                      *)
(***************************************************************************)
Bytes(b) == [bytes |-> b]
Text(doc) == [text |-> doc]

XML_EXT == <<".", "x", "m", "l">>

\* A variant of the loop body that stores nothing
zip_read_rel_storing_nothing(files, base_dir, acc, dir_hint, fname) == acc

\* The body of the mesh and texture loops of to_zip_deflated for one name
zip_read_rel(files, base_dir, acc, dir_hint, fname) ==
    IF acc.raised \/ fname = <<>> THEN acc
    ELSE LET rel == rel_path(dir_hint, fname)
             full == join(base_dir, rel)
             st == os_stat(files, full)
         IN  IF ~ isfile(files, st) THEN acc
             ELSE IF ~ can_read(files, st) THEN Collecting(acc.assets, TRUE)
             ELSE Collecting(
                      dict_set(acc.assets, _make_zip_safe_path(rel),
                               Bytes(read_bytes(files, st))),
                      FALSE)

\* The body of the hfield and skin loops of to_zip_deflated for one name
zip_read_bare(files, base_dir, acc, fname) ==
    IF acc.raised \/ fname = <<>> THEN acc
    ELSE LET full == join(base_dir, fname)
             st == os_stat(files, full)
         IN  IF ~ isfile(files, st) THEN acc
             ELSE IF ~ can_read(files, st) THEN Collecting(acc.assets, TRUE)
             ELSE Collecting(
                      dict_set(acc.assets, _make_zip_safe_path(fname),
                               Bytes(read_bytes(files, st))),
                      FALSE)

\* for fname in names, from the k-th on
RECURSIVE zip_read_rel_each(_, _, _, _, _, _)
zip_read_rel_each(files, base_dir, acc, dir_hint, names, k) ==
    IF k > Len(names) THEN acc
    ELSE zip_read_rel_each(files, base_dir,
                           zip_read_rel(files, base_dir, acc, dir_hint, names[k]),
                           dir_hint, names, k + 1)

\* for texture in spec.textures: for fname in [texture.file] + cubefiles
RECURSIVE zip_read_textures(_, _, _, _, _, _)
zip_read_textures(files, base_dir, acc, texture_dir, textures, k) ==
    IF k > Len(textures) THEN acc
    ELSE zip_read_textures(files, base_dir,
             zip_read_rel_each(files, base_dir, acc, texture_dir,
                               <<textures[k].file>> \o textures[k].cubefiles, 1),
             texture_dir, textures, k + 1)

RECURSIVE zip_read_bare_each(_, _, _, _, _)
zip_read_bare_each(files, base_dir, acc, names, k) ==
    IF k > Len(names) THEN acc
    ELSE zip_read_bare_each(files, base_dir,
                            zip_read_bare(files, base_dir, acc, names[k]),
                            names, k + 1)

\* files_to_zip after the four collection loops of to_zip_deflated
zip_collect(s, files) ==
    LET base_dir == s.modelfiledir
        a1 == zip_read_rel_each(files, base_dir, Collecting(<<>>, FALSE),
                                s.meshdir, s.meshes, 1)
        a2 == zip_read_textures(files, base_dir, a1, s.texturedir, s.textures, 1)
        a3 == zip_read_bare_each(files, base_dir, a2, s.hfields, 1)
    IN  zip_read_bare_each(files, base_dir, a3, s.skins, 1)

\* A serializer that normalises the description in place, as mujoco.to_zip does
description_rewritten_in_place(s, normalise) ==
    [s EXCEPT !.meshes = [i \in 1..Len(s.meshes) |->
                             IF s.meshes[i] = <<>> THEN <<>>
                             ELSE _make_zip_safe_path(rel_path(s.meshdir, s.meshes[i]))],
              !.meshdir = <<>>]

\* A to_xml() that clears the directory hints of the description
description_with_hints_cleared(s, normalise) ==
    [s EXCEPT !.meshdir = <<>>, !.texturedir = <<>>]

\* The description as to_zip_deflated leaves it: the function assigns nothing to
\* spec, and its call of spec.to_xml() is the only thing that acts on it
description_after_zip(s, normalise) == to_xml_side_effect(s, normalise)

\* files_to_zip when the ZIP is written: s is the description on entry, whose
\* hints the function read into mesh_dir and texture_dir before to_xml() ran,
\* and collected is files_to_zip after the collection loops
files_to_zip(s, collected, normalise) ==
    LET xml_str == to_xml(description_after_zip(s, normalise))
    IN  dict_set(collected,
                 s.modelname \o XML_EXT,
                 Text(_rewrite_xml_paths(xml_str, s.meshdir, s.texturedir)))

\* The modification time a ZIP entry stores: MS-DOS time, in units of two seconds
dos_time(t) == t \div 2

\* A writer that stores the entries uncompressed, as mujoco.to_zip does
write_zip_stored(d, t) ==
    [i \in 1..Len(d) |->
        [name |-> d[i][1], contents |-> d[i][2], compress_type |-> "ZIP_STORED",
         date_time |-> dos_time(t)]]

\* zf.writestr(filename, contents) for each item, under ZIP_DEFLATED: given a
\* name, writestr makes a ZipInfo dated time.localtime(time.time())
write_zip(d, t) ==
    [i \in 1..Len(d) |->
        [name |-> d[i][1], contents |-> d[i][2], compress_type |-> "ZIP_DEFLATED",
         date_time |-> dos_time(t)]]

(***************************************************************************)
(* The target of to_zip_deflated: an open byte stream, or a path string    *)
(* for which the function makes the parent directories and opens the file. *)
(***************************************************************************)
Stream == [kind |-> "stream"]
PathTarget(p) == [kind |-> "str", path |-> p]

\* s.rstrip('/')
RECURSIVE rstrip_slashes(_)
rstrip_slashes(s) ==
    IF s # <<>> /\ s[Len(s)] = SLASH THEN rstrip_slashes(SubSeq(s, 1, Len(s) - 1)) ELSE s

\* os.path.dirname(p)
dirname(p) ==
    LET head == SubSeq(p, 1, rfind(p, SLASH, Len(p)))
    IN  IF head # <<>> /\ \E i \in 1..Len(head) : head[i] # SLASH
        THEN rstrip_slashes(head)
        ELSE head

\* The outcome of a step that may raise OSError, and the disk it leaves
Done(files) == [ok |-> TRUE, files |-> files]
Raised(files) == [ok |-> FALSE, files |-> files]

\* os.makedirs over the components of the name, from the location cur on:
\* a missing directory is made, an existing one is passed (exist_ok=True),
\* and a regular file in the way raises
RECURSIVE mkdir_each(_, _, _)
mkdir_each(files, cur, comps) ==
    IF comps = <<>> THEN Done(files)
    ELSE LET comp == Head(comps)
             nxt == Append(cur, comp)
         IN  IF comp = <<>> \/ comp = DOT THEN mkdir_each(files, cur, Tail(comps))
             ELSE IF comp = DOTDOT
               THEN mkdir_each(files, SubSeq(cur, 1, Len(cur) - 1), Tail(comps))
             ELSE IF isdir_at(files, nxt) THEN mkdir_each(files, nxt, Tail(comps))
             ELSE IF isfile_at(files, nxt) THEN Raised(files)
             ELSE mkdir_each((nxt :> Dir) @@ files, nxt, Tail(comps))

\* os.makedirs(name, exist_ok=True): mkdir('') raises FileNotFoundError
makedirs(files, name) ==
    IF name = <<>> THEN Raised(files)
    ELSE mkdir_each(files, IF isabs(name) THEN <<>> ELSE Cwd, split(name, SLASH))

\* open(name, "wb"), then the archive written through it: the file is created
\* in its parent directory, which must exist, and holds the archive
open_wb_and_write(files, name, archive) ==
    LET comps == split(name, SLASH)
        last == comps[Len(comps)]
        parent == walk(files, IF isabs(name) THEN <<>> ELSE Cwd,
                       SubSeq(comps, 1, Len(comps) - 1))
        loc == Append(parent[2], last)
    IN  IF \/ name = <<>>
           \/ ~ parent[1]
           \/ ~ isdir_at(files, parent[2])
           \/ last \in {<<>>, DOT, DOTDOT}
           \/ isdir_at(files, loc)
        THEN Raised(files)
        ELSE Done((loc :> [bytes |-> archive, readable |-> TRUE]) @@ files)

\* if isinstance(file, str): makedirs(dirname(file)); file = open(file, "wb")
\* and then the ZipFile written to file
write_target(files, target, archive) ==
    IF target.kind = "stream" THEN Done(files)
    ELSE LET made == makedirs(files, dirname(target.path))
         IN  IF ~ made.ok THEN made
             ELSE open_wb_and_write(made.files, target.path, archive)

\* A serializer that opens its target before it collects the assets
to_zip_deflated_opening_first(s, files, tgt, t) ==
    LET res == zip_collect(s, files)
    IN  {LET archive == IF res.raised THEN <<>>
                        ELSE write_zip(files_to_zip(s, res.assets, normalise), t)
             out == write_target(files, tgt, archive)
         IN  [raised |-> res.raised \/ ~ out.ok,
              zip |-> IF out.ok THEN archive ELSE <<>>,
              spec |-> IF res.raised THEN s ELSE description_after_zip(s, normalise),
              files |-> out.files] : normalise \in BOOLEAN}

\* The outcomes of to_zip_deflated(s, tgt) on the disk files at time t: the
\* archive written (none when the call raises), the description and the disk
\* it leaves
to_zip_deflated(s, files, tgt, t) ==
    LET res == zip_collect(s, files)
    IN  IF res.raised
        THEN {[raised |-> TRUE, zip |-> <<>>, spec |-> s, files |-> files]}
        ELSE {LET archive == write_zip(files_to_zip(s, res.assets, normalise), t)
                  out == write_target(files, tgt, archive)
              IN  [raised |-> ~ out.ok,
                   zip |-> IF out.ok THEN archive ELSE <<>>,
                   spec |-> description_after_zip(s, normalise),
                   files |-> out.files] : normalise \in BOOLEAN}

(***************************************************************************)
(* State groups                                                            *)
(***************************************************************************)
canonVars == <<path, cpc, out1, out2>>
rewriteVars == <<xml_in, dirs, xml_out, rpc>>
archiveVars == <<spec, orig, fs, assets, cstate, zip, zstate, file, now, zip2>>
builderVars == <<_projects, calls, dist, bstate, exc>>
sideVars == <<threads, ac_assets, ac_state>>
vars == <<path, cpc, out1, out2, xml_in, dirs, xml_out, rpc,
          spec, orig, fs, assets, cstate, zip, zstate, file, now, zip2,
          _projects, calls, dist, bstate, exc, threads, ac_assets, ac_state>>

CanonIdle == path = <<>> /\ cpc = "off" /\ out1 = <<>> /\ out2 = <<>>
RewriteIdle == xml_in = <<>> /\ dirs = <<>> /\ xml_out = <<>> /\ rpc = "off"
ArchiveIdle ==
    /\ spec = <<>> /\ orig = <<>> /\ fs = <<>> /\ assets = <<>> /\ zip = <<>>
    /\ cstate = "off" /\ zstate = "off" /\ file = <<>> /\ now = 0 /\ zip2 = <<>>
BuilderIdle ==
    /\ _projects = <<>> /\ calls = <<>> /\ dist = <<>> /\ bstate = "off"
    /\ exc = "off"
SideIdle == threads = <<>> /\ ac_assets = <<>> /\ ac_state = "off"

(***************************************************************************)
(* Calls of the canonicaliser.  Its inputs are every string over PathChars *)
(* of at most MaxPathLen characters; "C" is an alphabetic letter, "1" is   *)
(* not.                                                                    *)
(***************************************************************************)
MaxPathLen == 5
PathChars == {SLASH, BACKSLASH, ".", ":", "C", "1"}
Letters == {"C"}

Strings(chars, n) == UNION {[1..k -> chars] : k \in 0..n}
Paths == Strings(PathChars, MaxPathLen)

InitCanon ==
    /\ path \in Paths
    /\ cpc = "input"
    /\ out1 = <<>>
    /\ out2 = <<>>
    /\ RewriteIdle
    /\ ArchiveIdle
    /\ BuilderIdle
    /\ SideIdle

\* x = _make_zip_safe_path(path)
MakeZipSafePath ==
    /\ cpc = "input"
    /\ out1' = _make_zip_safe_path(path)
    /\ cpc' = "safe"
    /\ UNCHANGED <<path, out2, rewriteVars, archiveVars, builderVars, sideVars>>

\* _make_zip_safe_path(x)
MakeZipSafePathAgain ==
    /\ cpc = "safe"
    /\ out2' = _make_zip_safe_path(out1)
    /\ cpc' = "safe2"
    /\ UNCHANGED <<path, out1, rewriteVars, archiveVars, builderVars, sideVars>>

\* y = _strip_leading_dotdot(path)
StripLeadingDotdot ==
    /\ cpc = "input"
    /\ out1' = _strip_leading_dotdot(path)
    /\ cpc' = "stripped"
    /\ UNCHANGED <<path, out2, rewriteVars, archiveVars, builderVars, sideVars>>

\* _strip_leading_dotdot(y)
StripLeadingDotdotAgain ==
    /\ cpc = "stripped"
    /\ out2' = _strip_leading_dotdot(out1)
    /\ cpc' = "stripped2"
    /\ UNCHANGED <<path, out1, rewriteVars, archiveVars, builderVars, sideVars>>

NextCanon ==
    \/ MakeZipSafePath
    \/ MakeZipSafePathAgain
    \/ StripLeadingDotdot
    \/ StripLeadingDotdotAgain

SpecCanon == InitCanon /\ [][NextCanon]_vars

(***************************************************************************)
(* Properties of strings used by the claims                                *)
(***************************************************************************)
HasBackslash(s) == \E i \in 1..Len(s) : s[i] = BACKSLASH

\* some path segment of s is ".."
HasDotDotSegment(s) ==
    LET parts == split(s, SLASH)
    IN  \E i \in 1..Len(parts) : parts[i] = DOTDOT

\* s contains ".." as a substring
HasDotDotSubstring(s) == \E i \in 1..(Len(s) - 1) : s[i] = "." /\ s[i + 1] = "."

\* s begins with <letter>:/
HasDriveLetterPrefix(s) ==
    Len(s) >= 3 /\ s[1] \in Letters /\ s[2] = ":" /\ s[3] = SLASH

(***************************************************************************)
(* C2: for every input string x, _make_zip_safe_path(x) contains no        *)
(* backslash, does not start with '/' and has no path segment equal to    *)
(* '..'.                                                                   *)
(***************************************************************************)
C2_SafeKey ==
    cpc = "safe" =>
        /\ ~ HasBackslash(out1)
        /\ ~ startswith(out1, <<SLASH>>)
        /\ ~ HasDotDotSegment(out1)

(***************************************************************************)
(* C9: canonicalisation is idempotent: applying _make_zip_safe_path to its *)
(* own result returns that result, and likewise _strip_leading_dotdot.     *)
(***************************************************************************)
C9_Idempotent ==
    /\ cpc = "safe2" => out2 = out1
    /\ cpc = "stripped2" => out2 = out1

(***************************************************************************)
(* C10: the input is treated as absolute if and only if, after separator   *)
(* normalisation, it begins with '/' or with <letter>:/ (an alphabetic     *)
(* letter); an absolute input gives its basename, every other input the    *)
(* result of the relative rule.                                            *)
(***************************************************************************)
C10_AbsoluteIffSlashOrDriveLetter ==
    cpc = "safe" =>
        LET posix_path == replace(path, BACKSLASH, SLASH)
        IN  out1 = IF isabs(posix_path) \/ HasDriveLetterPrefix(posix_path)
                   THEN basename(posix_path)
                   ELSE _strip_leading_dotdot(posix_path)

(***************************************************************************)
(* Calls of the canonicaliser on longer paths without a drive prefix: every *)
(* string over RelChars of at most MaxRelLen characters.                   *)
(***************************************************************************)
MaxRelLen == 6
RelChars == {SLASH, BACKSLASH, ".", "C"}

InitRelative ==
    /\ path \in Strings(RelChars, MaxRelLen)
    /\ cpc = "input"
    /\ out1 = <<>>
    /\ out2 = <<>>
    /\ RewriteIdle
    /\ ArchiveIdle
    /\ BuilderIdle
    /\ SideIdle

SpecRelative == InitRelative /\ [][NextCanon]_vars

\* The reference: the segments of x between '/', without the empty and '.' ones
RefSegments(x) == SelectSeq(split(x, SLASH), LAMBDA seg : seg # <<>> /\ seg # DOT)

\* The reference: cancel each 'name/..' pair, leftmost first, until none is left
RECURSIVE CancelPairs(_)
CancelPairs(segs) ==
    LET pairs == {i \in 1..(Len(segs) - 1) : segs[i] # DOTDOT /\ segs[i + 1] = DOTDOT}
    IN  IF pairs = {} THEN segs
        ELSE LET i == CHOOSE i \in pairs : \A j \in pairs : i <= j
             IN  CancelPairs(SubSeq(segs, 1, i - 1) \o SubSeq(segs, i + 2, Len(segs)))

\* The reference: the segments from the first one that is not '..'
FromFirstName(segs) ==
    LET names == {i \in 1..Len(segs) : segs[i] # DOTDOT}
    IN  IF names = {} THEN <<>>
        ELSE SubSeq(segs, CHOOSE i \in names : \A j \in names : i <= j, Len(segs))

ReferenceCanon(x) == strjoin(SLASH, FromFirstName(CancelPairs(RefSegments(x))))

\* x has no '.', '..' or empty segment (so no duplicate or trailing separator)
CleanRelative(x) ==
    x = <<>> \/ \A seg \in {split(x, SLASH)[i] : i \in 1..Len(split(x, SLASH))} :
                    seg # <<>> /\ seg # DOT /\ seg # DOTDOT

\* x is made only of '.' and '..' segments and separators
OnlyDots(x) == \A i \in 1..Len(RefSegments(x)) : RefSegments(x)[i] = DOTDOT

(***************************************************************************)
(* C11: for every input that does not start with '/', the relative rule    *)
(* _strip_leading_dotdot returns the reference (segments between '/',      *)
(* empty and '.' ones dropped, 'name/..' pairs cancelled, '..' at the      *)
(* front dropped, joined with '/'); an input of only '.' and '..' segments *)
(* gives '' and a clean path is returned unchanged; and on every input it  *)
(* does not take for absolute, _make_zip_safe_path returns the reference   *)
(* of the separator-normalised input.                                      *)
(***************************************************************************)
C11_RelativeRuleIsReference ==
    /\ (cpc = "stripped" /\ ~ isabs(path)) =>
           /\ out1 = ReferenceCanon(path)
           /\ OnlyDots(path) => out1 = <<>>
           /\ CleanRelative(path) => out1 = path
    /\ (cpc = "safe" /\ ~ is_absolute(replace(path, BACKSLASH, SLASH))) =>
           out1 = ReferenceCanon(replace(path, BACKSLASH, SLASH))

\* C11's case: an internal 'name/..' pair was cancelled and a name survived
C11_Witness ==
    /\ cpc = "stripped"
    /\ path = <<"C", "/", ".", ".", "/", "C">>
    /\ out1 = <<"C">>

(***************************************************************************)
(* Direct calls of _rewrite_xml_paths(xml_str, mesh_dir, texture_dir), as  *)
(* the unit tests make them: any short document over RewriteElems and any  *)
(* pair of hints.                                                          *)
(***************************************************************************)
MaxElems == 2

S_a == <<"a">>
S_up == <<".", ".">>
S_up_slash == <<".", ".", "/">>
S_up_a == <<".", ".", "/", "a">>
S_abs_a == <<"/", "d", "/", "a">>
S_abs_up == <<"/", "d", "/", ".", ".">>
S_dot_drive_a == <<".", "/", "C", ":", "/", "a">>
S_drive_a == <<"C", ":", "/", "a">>
S_win_up_a == <<".", ".", "\\", "a">>
S_t == <<"t">>
S_n == <<"n">>
S_radian == <<"r", "a", "d">>

RewriteHints == {<<>>, S_up_slash, S_t}

CompilerElems ==
    { Elem("compiler", "angle" :> S_radian),
      Elem("compiler", ("meshdir" :> S_up_slash) @@ ("angle" :> S_radian)),
      Elem("compiler", ("meshdir" :> S_up) @@ ("texturedir" :> S_t)
                           @@ ("angle" :> S_radian)),
      Elem("compiler", "texturedir" :> S_up) }

MeshElems ==
    { Elem("mesh", "name" :> S_n) } \cup
    { Elem("mesh", ("name" :> S_n) @@ ("file" :> f)) :
        f \in {<<>>, S_a, S_up_a, S_abs_a, S_abs_up, S_drive_a} }

TextureElems ==
    { Elem("texture", "name" :> S_n),
      Elem("texture", ("file" :> S_abs_up) @@ ("fileup" :> S_a)) } \cup
    { Elem("texture", _TEX_FILE_ATTRS[k] :> S_up_a) : k \in 1..Len(_TEX_FILE_ATTRS) }

HfieldSkinElems ==
    { Elem("hfield", "file" :> S_up_a),
      Elem("hfield", "file" :> S_dot_drive_a),
      Elem("skin", "file" :> S_abs_a),
      Elem("skin", "file" :> S_win_up_a) }

OtherElems == { Elem("geom", ("mesh" :> S_n) @@ ("file" :> S_up_a)) }

RewriteElems ==
    CompilerElems \cup MeshElems \cup TextureElems \cup HfieldSkinElems \cup OtherElems

XmlDocs == UNION {[1..k -> RewriteElems] : k \in 0..MaxElems}

InitRewrite ==
    /\ CanonIdle
    /\ xml_in \in XmlDocs
    /\ dirs \in [mesh_dir : RewriteHints, texture_dir : RewriteHints]
    /\ xml_out = <<>>
    /\ rpc = "call"
    /\ ArchiveIdle
    /\ BuilderIdle
    /\ SideIdle

\* result = _rewrite_xml_paths(xml_in, mesh_dir=..., texture_dir=...)
RewriteXmlPaths ==
    /\ rpc = "call"
    /\ xml_out' = _rewrite_xml_paths(xml_in, dirs.mesh_dir, dirs.texture_dir)
    /\ rpc' = "done"
    /\ UNCHANGED <<xml_in, dirs, canonVars, archiveVars, builderVars, sideVars>>

NextRewrite == RewriteXmlPaths

SpecRewrite == InitRewrite /\ [][NextRewrite]_vars

\* The file-reference attributes of an element, by tag
FileAttrs(tag) ==
    IF tag = "texture" THEN {_TEX_FILE_ATTRS[k] : k \in 1..Len(_TEX_FILE_ATTRS)}
    ELSE IF tag \in {"mesh", "hfield", "skin"} THEN {"file"}
    ELSE {}

\* The values of the file references of doc
FileRefs(doc) ==
    UNION { { doc[i].attrib[a] : a \in FileAttrs(doc[i].tag) \cap DOMAIN doc[i].attrib } :
              i \in 1..Len(doc) }

PortableRef(f) ==
    /\ ~ startswith(f, <<SLASH>>)
    /\ ~ HasDriveLetterPrefix(f)
    /\ ~ HasDotDotSegment(f)

(***************************************************************************)
(* C3: in the document returned by _rewrite_xml_paths every file reference *)
(* of every mesh, texture (file and the six cube faces), hfield and skin   *)
(* does not start with '/', does not start with a drive-letter prefix and  *)
(* has no '..' segment.                                                    *)
(***************************************************************************)
C3_RewrittenRefsPortable ==
    rpc = "done" => \A f \in FileRefs(xml_out) : PortableRef(f)

(***************************************************************************)
(* C4: after _rewrite_xml_paths no <compiler> element carries meshdir or   *)
(* texturedir, and every other attribute of every <compiler> element keeps *)
(* its original value.                                                     *)
(***************************************************************************)
C4_CompilerHintsRemoved ==
    rpc = "done" =>
        /\ Len(xml_out) = Len(xml_in)
        /\ \A i \in 1..Len(xml_out) :
               /\ (xml_out[i].tag = "compiler") = (xml_in[i].tag = "compiler")
               /\ xml_out[i].tag = "compiler" =>
                      /\ DOMAIN xml_out[i].attrib =
                             DOMAIN xml_in[i].attrib \ {"meshdir", "texturedir"}
                      /\ \A a \in DOMAIN xml_out[i].attrib :
                             xml_out[i].attrib[a] = xml_in[i].attrib[a]

\* C4's case: a compiler element with both hints and another attribute was rewritten
C4_Witness ==
    /\ rpc = "done"
    /\ \E i \in 1..Len(xml_in) :
           /\ xml_in[i].tag = "compiler"
           /\ {"meshdir", "texturedir", "angle"} \subseteq DOMAIN xml_in[i].attrib
           /\ xml_out[i].attrib = ("angle" :> S_radian)

\* The hint that governs the file references of an element, by tag
HintOf(tag, hints) ==
    IF tag = "mesh" THEN hints.mesh_dir
    ELSE IF tag = "texture" THEN hints.texture_dir
    ELSE <<>>

\* The hint prefixed to a reference as a directory, when there is a hint
Prefixed(hint, f) == IF hint = <<>> THEN f ELSE join(hint, f)

(***************************************************************************)
(* C12: _rewrite_xml_paths replaces each non-empty file attribute by       *)
(* canonicalize(joined): meshdir prefixed for <mesh file>, texturedir       *)
(* prefixed for each of the seven <texture> file attributes independently, *)
(* the bare value for <hfield file> and <skin file>; an absent or empty    *)
(* file attribute and every other attribute is left as it was, no          *)
(* attribute is added, and no element is added, removed or renamed.        *)
(***************************************************************************)
C12_FileAttrsCanonicalised ==
    rpc = "done" =>
        /\ Len(xml_out) = Len(xml_in)
        /\ \A i \in 1..Len(xml_in) :
               /\ xml_out[i].tag = xml_in[i].tag
               /\ xml_in[i].tag # "compiler" =>
                      /\ DOMAIN xml_out[i].attrib = DOMAIN xml_in[i].attrib
                      /\ \A a \in DOMAIN xml_in[i].attrib :
                             xml_out[i].attrib[a] =
                                 IF a \in FileAttrs(xml_in[i].tag) /\ xml_in[i].attrib[a] # <<>>
                                 THEN _make_zip_safe_path(
                                          Prefixed(HintOf(xml_in[i].tag, dirs),
                                                   xml_in[i].attrib[a]))
                                 ELSE xml_in[i].attrib[a]

\* C12's case: a texture with two file attributes was rewritten under a hint,
\* next to a mesh whose file attribute is empty
C12_Witness ==
    /\ rpc = "done"
    /\ dirs.texture_dir # <<>>
    /\ \E i, j \in 1..Len(xml_in) :
           /\ xml_in[i].tag = "texture"
           /\ {"file", "fileup"} \subseteq DOMAIN xml_in[i].attrib
           /\ xml_out[i].attrib["file"] # xml_in[i].attrib["file"]
           /\ xml_out[i].attrib["fileup"] # xml_in[i].attrib["fileup"]
           /\ xml_in[j].tag = "mesh"
           /\ "file" \in DOMAIN xml_in[j].attrib
           /\ xml_out[j].attrib["file"] = <<>>

(***************************************************************************)
(* Calls of collect_spec_assets and to_zip_deflated on one description.    *)
(* The description is loaded from BaseDir; the disk holds some of three    *)
(* files, /d/h/a, /d/a and /d/h/m.xml, each with bytes of its own.         *)
(***************************************************************************)
MaxMeshes == 1
NumCubeFaces == 6

BaseDir == <<"/", "d", "/", "h">>
S_abs_d == <<"/", "d">>
S_m == <<"m">>
S_abs_m == <<"/", "m">>
S_m_xml == <<"m", ".", "x", "m", "l">>

NoCubeFiles == [k \in 1..NumCubeFaces |-> <<>>]
Texture(fname, cubefiles) == [file |-> fname, cubefiles |-> cubefiles]

ModelNames == {S_m, S_abs_m}
MeshDirs == {<<>>, S_up, S_abs_d}
TextureDirs == {<<>>, S_up}
MeshRefs == {<<>>, S_a, S_abs_a, S_m_xml}
MeshLists == UNION {[1..k -> MeshRefs] : k \in 0..MaxMeshes}
TextureLists ==
    { <<>>,
      << Texture(<<>>, [NoCubeFiles EXCEPT ![1] = S_a, ![3] = S_up_a]) >>,
      << Texture(S_up_a, [NoCubeFiles EXCEPT ![6] = S_a]) >> }
HfieldLists == { <<>>, <<S_up_a>>, <<S_m_xml>> }
SkinLists == { <<>>, <<S_a>> }

Descriptions ==
    [modelname : ModelNames, modelfiledir : {BaseDir},
     meshdir : MeshDirs, texturedir : TextureDirs,
     meshes : MeshLists, textures : TextureLists,
     hfields : HfieldLists, skins : SkinLists]

File(bytes, readable) == [bytes |-> bytes, readable |-> readable]
Loc_h_a == << <<"d">>, <<"h">>, <<"a">> >>
Loc_d_a == << <<"d">>, <<"a">> >>
Loc_h_m_xml == << <<"d">>, <<"h">>, S_m_xml >>

FsAll ==
    (Loc_h_a :> File("B1", TRUE)) @@ (Loc_d_a :> File("B2", TRUE))
        @@ (Loc_h_m_xml :> File("B3", TRUE))
FileSystems ==
    { FsAll,
      [FsAll EXCEPT ![Loc_d_a] = File("B2", FALSE)],
      Loc_h_a :> File("B1", TRUE),
      <<>> }

InitArchive ==
    /\ CanonIdle
    /\ RewriteIdle
    /\ BuilderIdle
    /\ SideIdle
    /\ spec \in Descriptions
    /\ orig = spec
    /\ fs \in FileSystems
    /\ assets = <<>>
    /\ cstate = "none"
    /\ zip = <<>>
    /\ zstate = "none"
    /\ file = Stream
    /\ now = 0
    /\ zip2 = <<>>

\* assets = collect_spec_assets(spec)
CollectSpecAssets ==
    /\ cstate = "none"
    /\ LET res == collect_spec_assets(spec, fs)
       IN  IF res.raised
           THEN assets' = <<>> /\ cstate' = "raised"
           ELSE assets' = res.assets /\ cstate' = "returned"
    /\ UNCHANGED <<spec, orig, fs, zip, zstate, file, now, zip2, canonVars, rewriteVars, builderVars, sideVars>>

\* to_zip_deflated(spec, target)
ToZipDeflated ==
    /\ zstate = "none"
    /\ \E res \in to_zip_deflated(spec, fs, file, now) :
           /\ zip' = res.zip
           /\ zstate' = IF res.raised THEN "raised" ELSE "written"
           /\ spec' = res.spec
           /\ fs' = res.files
    /\ UNCHANGED <<orig, assets, cstate, file, now, zip2, canonVars, rewriteVars, builderVars, sideVars>>

Next ==
    \/ CollectSpecAssets
    \/ ToZipDeflated

Spec == InitArchive /\ [][Next]_vars

(***************************************************************************)
(* What the claims say about an archive                                    *)
(***************************************************************************)
\* The name of the description entry
description_name(s) == s.modelname \o XML_EXT

\* The entries of an archive that hold bytes read from disk
AssetEntries(z) == {i \in 1..Len(z) : "bytes" \in DOMAIN z[i].contents}

\* The entries of an archive that hold description text
TextEntries(z) == {i \in 1..Len(z) : "text" \in DOMAIN z[i].contents}

(***************************************************************************)
(* C1: no entry name of an archive written by to_zip_deflated, asset or    *)
(* description entry, starts with '/' or contains the substring '..'.      *)
(***************************************************************************)
C1_EntryNamesSafe ==
    zstate = "written" =>
        \A i \in 1..Len(zip) :
            /\ ~ startswith(zip[i].name, <<SLASH>>)
            /\ ~ HasDotDotSubstring(zip[i].name)

(***************************************************************************)
(* C5: every non-empty file reference left in the description entry of an  *)
(* archive equals the name of an asset entry of the same archive.          *)
(***************************************************************************)
C5_RefsNameAssetEntries ==
    zstate = "written" =>
        \A t \in TextEntries(zip) :
            \A f \in FileRefs(zip[t].contents.text) :
                f = <<>> \/ \E i \in AssetEntries(zip) : zip[i].name = f

(***************************************************************************)
(* C6: the archive holds exactly one description entry, named              *)
(* <modelname>.xml, with the text returned by _rewrite_xml_paths, exactly  *)
(* one entry for each key of the collected asset map, with that name and   *)
(* those bytes, and no other entry.                                        *)
(***************************************************************************)
C6_ArchiveIsDescriptionPlusAssets ==
    zstate = "written" =>
        LET collected == zip_collect(orig, fs).assets
        IN  /\ Cardinality(TextEntries(zip)) = 1
            /\ \A t \in TextEntries(zip) :
                   /\ zip[t].name = description_name(orig)
                   /\ zip[t].contents.text =
                          _rewrite_xml_paths(to_xml(spec), orig.meshdir, orig.texturedir)
            /\ \A k \in 1..Len(collected) :
                   Cardinality({i \in 1..Len(zip) :
                                    /\ zip[i].name = collected[k][1]
                                    /\ zip[i].contents = collected[k][2]}) = 1
            /\ Len(zip) = 1 + Len(collected)

(***************************************************************************)
(* The file references of a description in the order the collector reads   *)
(* them, each with its governing hint: meshes (meshdir), textures          *)
(* (texturedir; the file, then the cube faces by index), heightfields and  *)
(* skins (no hint).                                                        *)
(***************************************************************************)
Ref(hint, fname) == [hint |-> hint, file |-> fname]

RECURSIVE TextureRefs(_, _, _)
TextureRefs(hint, textures, k) ==
    IF k > Len(textures) THEN <<>>
    ELSE <<Ref(hint, textures[k].file)>>
         \o [j \in 1..Len(textures[k].cubefiles) |-> Ref(hint, textures[k].cubefiles[j])]
         \o TextureRefs(hint, textures, k + 1)

DeclRefs(s) ==
    [i \in 1..Len(s.meshes) |-> Ref(s.meshdir, s.meshes[i])]
    \o TextureRefs(s.texturedir, s.textures, 1)
    \o [i \in 1..Len(s.hfields) |-> Ref(<<>>, s.hfields[i])]
    \o [i \in 1..Len(s.skins) |-> Ref(<<>>, s.skins[i])]

\* canonicalize(hint + file)
KeyOf(r) == _make_zip_safe_path(rel_path(r.hint, r.file))

\* os.stat of baseDir + hint + file
StatOf(s, r) == os_stat(fs, join(s.modelfiledir, rel_path(r.hint, r.file)))

\* the reference is non-empty and a regular file exists at baseDir + hint + file
Exists(s, r) == r.file # <<>> /\ isfile(fs, StatOf(s, r))

(***************************************************************************)
(* C7 as stated: the mapping returned by collect_spec_assets has the key   *)
(* canonicalize(hint + file) of a declaration if and only if its file      *)
(* exists at baseDir + hint + file, and the value under that key is that   *)
(* file's content; a missing file gives no key and no error.               *)
(***************************************************************************)
C7_KeyIffOwnFileExists ==
    cstate = "returned" =>
        LET refs == DeclRefs(orig)
        IN  \A i \in 1..Len(refs) :
                refs[i].file # <<>> =>
                    /\ (KeyOf(refs[i]) \in dict_keys(assets)) = Exists(orig, refs[i])
                    /\ Exists(orig, refs[i]) =>
                           dict_get(assets, KeyOf(refs[i]))
                               = read_bytes(fs, StatOf(orig, refs[i]))

(***************************************************************************)
(* C7 amended: the keys of the mapping returned by collect_spec_assets are *)
(* exactly the canonicalize(hint + file) of the declarations whose file    *)
(* exists at baseDir + hint + file, each key once; the value under a key   *)
(* is the content of the file of the last such declaration, in reading     *)
(* order, that has this key; and the call raises only when an existing     *)
(* file cannot be read, never for a missing one.                           *)
(***************************************************************************)
C7_KeysOfExistingFilesLastWins ==
    LET refs == DeclRefs(orig)
        found == {i \in 1..Len(refs) : Exists(orig, refs[i])}
    IN  /\ cstate = "returned" =>
               /\ dict_keys(assets) = {KeyOf(refs[i]) : i \in found}
               /\ Cardinality(dict_keys(assets)) = Len(assets)
               /\ \A k \in 1..Len(assets) :
                      \E i \in found :
                          /\ KeyOf(refs[i]) = assets[k][1]
                          /\ \A j \in found : KeyOf(refs[j]) = assets[k][1] => j <= i
                          /\ assets[k][2] = read_bytes(fs, StatOf(orig, refs[i]))
        /\ cstate = "raised" =>
               \E i \in found : ~ can_read(fs, StatOf(orig, refs[i]))

\* C7's case: the collector returned for a description with a missing file and
\* with two existing files of different content under one key
C7_Witness ==
    /\ cstate = "returned"
    /\ LET refs == DeclRefs(orig)
       IN  /\ \E i \in 1..Len(refs) : refs[i].file # <<>> /\ ~ Exists(orig, refs[i])
           /\ \E i, j \in 1..Len(refs) :
                  /\ i < j
                  /\ Exists(orig, refs[i]) /\ Exists(orig, refs[j])
                  /\ KeyOf(refs[i]) = KeyOf(refs[j])
                  /\ read_bytes(fs, StatOf(orig, refs[i]))
                         # read_bytes(fs, StatOf(orig, refs[j]))

(***************************************************************************)
(* C8 as stated: after to_zip_deflated or collect_spec_assets returns or   *)
(* raises, the description's meshdir, texturedir and every file reference  *)
(* have the values they had before the call.                               *)
(***************************************************************************)
C8_DescriptionUnchanged == spec = orig

(***************************************************************************)
(* C8 amended: neither call changes a file reference, the model name or    *)
(* the base directory of the description; collect_spec_assets changes      *)
(* nothing; the only change to_zip_deflated can make is the one of         *)
(* spec.to_xml(), a trailing '/' appended to meshdir or texturedir.        *)
(***************************************************************************)
C8_OnlyToXmlNormalisesHints ==
    /\ spec.meshes = orig.meshes
    /\ spec.textures = orig.textures
    /\ spec.hfields = orig.hfields
    /\ spec.skins = orig.skins
    /\ spec.modelname = orig.modelname
    /\ spec.modelfiledir = orig.modelfiledir
    /\ spec.meshdir \in {orig.meshdir, with_trailing_slash(orig.meshdir)}
    /\ spec.texturedir \in {orig.texturedir, with_trailing_slash(orig.texturedir)}
    /\ zstate = "none" => spec = orig

\* C8's case: both calls were made on a description with a populated mesh, and
\* to_xml() normalised its meshdir
C8_Witness ==
    /\ zstate = "written"
    /\ cstate = "returned"
    /\ \E i \in 1..Len(orig.meshes) : orig.meshes[i] # <<>>
    /\ spec.meshdir # orig.meshdir

\* The meshes of s, as the references the collection loops read
MeshDecls(s) == {Ref(s.meshdir, s.meshes[i]) : i \in 1..Len(s.meshes)}

ComputedNames(s) == dict_keys(zip_collect(s, fs).assets) \cup {description_name(s)}

\* An entry name that begins with '/' or contains '..'
UnsafeName(n) == startswith(n, <<SLASH>>) \/ HasDotDotSubstring(n)

(***************************************************************************)
(* C14: when an entry name computed by to_zip_deflated (an asset key or    *)
(* the description entry name) contains '..' or begins with '/', the call  *)
(* raises and writes no archive.                                           *)
(***************************************************************************)
C14_UnsafeNameRaises ==
    (zstate # "none" /\ \E n \in ComputedNames(orig) : UnsafeName(n)) =>
        zstate = "raised" /\ zip = <<>>

(***************************************************************************)
(* Calls of to_zip_deflated with a path target as well as a stream, on     *)
(* descriptions without hints.  The working directory is the root: "z" is  *)
(* a bare file name, "d" exists, "o" and "o/p" do not.                     *)
(***************************************************************************)
S_z == <<"z">>
S_d_z == <<"d", "/", "z">>
S_o_z == <<"o", "/", "z">>
S_o_p_z == <<"o", "/", "p", "/", "z">>
S_abs_o_z == <<"/", "o", "/", "z">>
S_abs_h_a == <<"/", "d", "/", "h", "/", "a">>

Targets ==
    {Stream} \cup {PathTarget(p) : p \in {S_z, S_d_z, S_o_z, S_o_p_z, S_abs_o_z, S_abs_h_a}}

TargetDescriptions ==
    {s \in Descriptions :
        /\ s.modelname = S_m
        /\ s.meshdir = <<>> /\ s.texturedir = <<>>
        /\ s.textures = <<>> /\ s.skins = <<>>}

InitTarget ==
    /\ CanonIdle
    /\ RewriteIdle
    /\ BuilderIdle
    /\ SideIdle
    /\ spec \in TargetDescriptions
    /\ orig = spec
    /\ fs \in FileSystems
    /\ assets = <<>>
    /\ cstate = "none"
    /\ zip = <<>>
    /\ zstate = "none"
    /\ file \in Targets
    /\ now = 0
    /\ zip2 = <<>>

SpecTarget == InitTarget /\ [][Next]_vars

\* Every declared file that exists on disk can be read
AssetsReadable ==
    \A k \in 1..Len(DeclRefs(orig)) :
        Exists(orig, DeclRefs(orig)[k]) => can_read(fs, StatOf(orig, DeclRefs(orig)[k]))

(***************************************************************************)
(* C15: to_zip_deflated accepts a byte stream or a path string; for every  *)
(* path target, with its parent directories missing, existing, or a bare   *)
(* file name without a directory part, the call makes the directories that *)
(* are needed and leaves the complete archive in a regular file at that    *)
(* path.                                                                   *)
(***************************************************************************)
C15_TargetHoldsArchive ==
    (zstate # "none" /\ AssetsReadable) =>
        /\ zstate = "written"
        /\ zip # <<>>
        /\ file.kind = "str" =>
               /\ isfile(fs, os_stat(fs, file.path))
               /\ read_bytes(fs, os_stat(fs, file.path)) = zip

(***************************************************************************)
(* Two calls of to_zip_deflated on one description, to a stream, with the  *)
(* disk unchanged and the clock running in between.                        *)
(***************************************************************************)
MaxClock == 2

ReproDescriptions ==
    {s \in Descriptions :
        s.modelname = S_m /\ s.textures = <<>> /\ s.hfields = <<>> /\ s.skins = <<>>}

InitRepro ==
    /\ CanonIdle
    /\ RewriteIdle
    /\ BuilderIdle
    /\ SideIdle
    /\ spec \in ReproDescriptions
    /\ orig = spec
    /\ fs \in FileSystems
    /\ assets = <<>>
    /\ cstate = "none"
    /\ zip = <<>>
    /\ zstate = "none"
    /\ file = Stream
    /\ now = 0
    /\ zip2 = <<>>

\* a second passes
Tick ==
    /\ now < MaxClock
    /\ now' = now + 1
    /\ UNCHANGED <<spec, orig, fs, assets, cstate, zip, zstate, file, zip2,
                   canonVars, rewriteVars, builderVars, sideVars>>

\* to_zip_deflated(spec, target) once more
ToZipDeflatedAgain ==
    /\ zstate = "written"
    /\ \E res \in to_zip_deflated(spec, fs, file, now) :
           /\ zip2' = res.zip
           /\ zstate' = IF res.raised THEN "reraised" ELSE "rewritten"
           /\ spec' = res.spec
           /\ fs' = res.files
    /\ UNCHANGED <<orig, assets, cstate, zip, file, now, canonVars, rewriteVars, builderVars, sideVars>>

NextRepro ==
    \/ ToZipDeflated
    \/ Tick
    \/ ToZipDeflatedAgain

SpecRepro == InitRepro /\ [][NextRepro]_vars

(***************************************************************************)
(* C16: two calls of to_zip_deflated on the same description with the same *)
(* disk content write byte-identical archives, whenever each call runs.    *)
(***************************************************************************)
C16_ArchivesIdentical ==
    zstate = "rewritten" => zip2 = zip

(***************************************************************************)
(* C17: within one scene two references that resolve to two different      *)
(* existing files on disk never receive the same canonical key, so the     *)
(* mapping returned by collect_spec_assets holds under each file's key     *)
(* that file's own bytes.                                                  *)
(***************************************************************************)
C17_KeyUniquePerSourceFile ==
    cstate = "returned" =>
        LET refs == DeclRefs(orig)
            found == {i \in 1..Len(refs) : Exists(orig, refs[i])}
        IN  /\ \A i, j \in found :
                   StatOf(orig, refs[i])[2] # StatOf(orig, refs[j])[2] =>
                       KeyOf(refs[i]) # KeyOf(refs[j])
            /\ \A i \in found : KeyOf(refs[i]) \in dict_keys(assets)

(***************************************************************************)
(* C18: every entry of an archive written by to_zip_deflated, the          *)
(* description entry and every asset entry, is stored with the DEFLATE     *)
(* method, never uncompressed.                                             *)
(***************************************************************************)
C18_EveryEntryDeflated ==
    zstate = "written" =>
        /\ TextEntries(zip) # {}
        /\ \A i \in 1..Len(zip) : zip[i].compress_type = "ZIP_DEFLATED"

\* C18's case: an archive with the description entry and two asset entries
C18_Witness ==
    /\ zstate = "written"
    /\ Cardinality(AssetEntries(zip)) >= 2
    /\ TextEntries(zip) # {}

(***************************************************************************)
(* Builder.  A name, an id and a path component are strings as before; a   *)
(* value that may be None is None or a tuple.  The output directory is     *)
(* whether it exists, the "projects" of its assets/config.json (<<>>       *)
(* before one is written) and the files of the projects' assets            *)
(* directories, keyed by project directory, scene directory and file name. *)
(***************************************************************************)
None == <<"None">>
MjModel == <<"MjModel">>
MjSpec == <<"MjSpec">>
MAIN == <<"m", "a", "i", "n">>
ASSETS == <<"a", "s", "s", "e", "t", "s">>
SCENE_MJB == <<"s", "c", "e", "n", "e", ".", "m", "j", "b">>
SCENE_MJZ == <<"s", "c", "e", "n", "e", ".", "m", "j", "z">>
ONNX_EXT == <<".", "o", "n", "n", "x">>
JSON_EXT == <<".", "j", "s", "o", "n">>

\* str.lower(), on names over "A", "a", " ", "-" and "_"
lower(s) == [i \in 1..Len(s) |-> IF s[i] = "A" THEN "a" ELSE s[i]]

\* name.lower().replace(" ", "_").replace("-", "_")
name2id(name) == replace(replace(lower(name), " ", "_"), "-", "_")

\* bool(x) of a str | None
truthy(x) == x # None /\ x # <<>>

ProjectConfig(name, id) == [name |-> name, id |-> id, scenes |-> <<>>]
SceneConfig(name, model, mjspec) ==
    [name |-> name, model |-> model, spec |-> mjspec, policies |-> <<>>]
\* commands is the set of keys of PolicyConfig.commands: a command group is
\* known by its name
PolicyConfig(name, config_path) ==
    [name |-> name, config_path |-> config_path, commands |-> {}]

\* SceneConfig.scene_filename
scene_filename(scene) == IF scene.spec # None THEN SCENE_MJZ ELSE SCENE_MJB

\* An id rule that sanitises the name for every project without an id
project_id_always_sanitised(projects, name, id) ==
    IF id # None THEN id ELSE name2id(name)

\* The project id chosen by add_project
project_id(projects, name, id) ==
    IF id # None THEN id
    ELSE IF projects = <<>> THEN None
    ELSE name2id(name)

\* Builder.get_projects(): a copy of the list
get_projects(projects) == [i \in 1..Len(projects) |-> projects[i]]

\* add_scene without its two checks
add_scene_unchecked(scenes, name, model, mjspec) ==
    [exc |-> "none", scenes |-> Append(scenes, SceneConfig(name, model, mjspec))]

\* ProjectHandle.add_scene on the scene list of its project: the exception it
\* raises and the list afterwards
add_scene(scenes, name, model, mjspec) ==
    IF model # None /\ mjspec # None THEN [exc |-> "ValueError", scenes |-> scenes]
    ELSE IF model = None /\ mjspec = None THEN [exc |-> "ValueError", scenes |-> scenes]
    ELSE [exc |-> "none", scenes |-> Append(scenes, SceneConfig(name, model, mjspec))]

\* SceneHandle.add_policy on the policy list of its scene
add_policy(policies, name, config_path) == Append(policies, PolicyConfig(name, config_path))

\* PolicyHandle.add_command: self._config.commands[name] = command_group
add_command(policy, name) == [policy EXCEPT !.commands = @ \cup {name}]

\* The entry of one policy in config.json: its name and, in "config", the
\* path it carries under that key ({} when the key is absent)
policy_entry(scene, policy) ==
    [name |-> policy.name,
     config |-> IF truthy(policy.config_path) \/ policy.commands # {}
                THEN {<<name2id(scene.name), name2id(policy.name) \o JSON_EXT>>}
                ELSE {}]

\* The "projects" of root_config in _save_config_json
config_json(projects) ==
    [i \in 1..Len(projects) |->
        [name |-> projects[i].name,
         id |-> projects[i].id,
         scenes |-> [j \in 1..Len(projects[i].scenes) |->
                        LET scene == projects[i].scenes[j]
                        IN  [name |-> scene.name,
                             path |-> <<name2id(scene.name), SCENE_MJB>>,
                             policies |-> [n \in 1..Len(scene.policies) |->
                                              policy_entry(scene, scene.policies[n])]]]]]

\* project.id if project.id else "main"
project_dir_name(project) == IF truthy(project.id) THEN project.id ELSE MAIN

\* The policy config files on disk: at S_g a JSON object without commands, at
\* S_b a file json.load or the update of its object fails on, nothing at S_n
S_g == <<"g">>
S_b == <<"b">>
ConfigFiles == (S_g :> [json |-> TRUE]) @@ (S_b :> [json |-> FALSE])

\* The file written for a policy's config_path and commands, as a set: the
\* source with onnx.path set and the commands added, a plain copy when that
\* raised, nothing when the source is missing; or onnx.path and the commands
\* when there is no config_path
policy_json(policy, policy_path_name) ==
    IF truthy(policy.config_path)
    THEN IF policy.config_path \in DOMAIN ConfigFiles
         THEN IF ConfigFiles[policy.config_path].json
              THEN {[json |-> TRUE, from |-> {policy.config_path},
                     onnx |-> policy_path_name, commands |-> policy.commands]}
              ELSE {[json |-> FALSE, from |-> {policy.config_path},
                     onnx |-> <<>>, commands |-> {}]}
         ELSE {}
    ELSE IF policy.commands # {}
         THEN {[json |-> TRUE, from |-> {},
                onnx |-> policy_path_name, commands |-> policy.commands]}
         ELSE {}

\* The policy loop of _save_web for one scene, from policy n on
RECURSIVE save_policies(_, _, _, _, _)
save_policies(project_dir, scene, files, policies, n) ==
    IF n > Len(policies) THEN files
    ELSE LET policy == policies[n]
             policy_id == name2id(policy.name)
             scene_id == name2id(scene.name)
             policy_path == <<project_dir, scene_id, policy_id \o ONNX_EXT>>
             target == <<project_dir, scene_id, policy_id \o JSON_EXT>>
             saved == (policy_path :> [onnx |-> policy.name]) @@ files
             written == policy_json(policy, policy_id \o ONNX_EXT)
         IN  save_policies(project_dir, scene,
                 IF written = {} THEN saved
                 ELSE (target :> CHOOSE w \in written : TRUE) @@ saved,
                 policies, n + 1)

\* The scene loops of _save_web from scene k of project p on: each scene is
\* written by mujoco.mj_saveModel(scene.model, .../scene.mjb), which raises
\* TypeError when scene.model is None, and its policies follow it
RECURSIVE save_scenes(_, _, _, _)
save_scenes(projects, files, p, k) ==
    IF p > Len(projects) THEN Done(files)
    ELSE IF k > Len(projects[p].scenes) THEN save_scenes(projects, files, p + 1, 1)
    ELSE LET scene == projects[p].scenes[k]
             project_dir == project_dir_name(projects[p])
             scene_path == <<project_dir, name2id(scene.name), SCENE_MJB>>
         IN  IF scene.model = None THEN Raised(files)
             ELSE save_scenes(projects,
                      save_policies(project_dir, scene,
                          (scene_path :> [mjb |-> scene.name]) @@ files,
                          scene.policies, 1),
                      p, k + 1)

NoOutput == [exists |-> FALSE, config |-> <<>>, files |-> <<>>]
\* An output directory left by an earlier build
OldOutput ==
    [exists |-> TRUE, config |-> <<>>,
     files |-> (<<MAIN, <<"o">>, SCENE_MJB>> :> [mjb |-> <<"o">>])]

\* A build that clears the output directory before it looks at the projects
build_removing_first(projects, output) ==
    IF projects = <<>> THEN [state |-> "ValueError", output |-> NoOutput]
    ELSE LET saved == save_scenes(projects, <<>>, 1, 1)
         IN  [state |-> IF saved.ok THEN "built" ELSE "TypeError",
              output |-> [exists |-> TRUE, config |-> config_json(projects),
                          files |-> saved.files]]

\* Builder.build(output_dir): the state it ends in ("built" or the exception
\* raised) and the output directory, which _save_web removes and makes anew
build(projects, output) ==
    IF projects = <<>> THEN [state |-> "ValueError", output |-> output]
    ELSE LET saved == save_scenes(projects, <<>>, 1, 1)
         IN  [state |-> IF saved.ok THEN "built" ELSE "TypeError",
              output |-> [exists |-> TRUE, config |-> config_json(projects),
                          files |-> saved.files]]

MaxProjects == 2
MaxScenes == 2
MaxPolicies == 2
MaxCalls == 4

ProjectNames == { <<"A">>, <<"a", "-", "A">> }
ProjectIds == { None, <<"a">> }
SceneNames == { <<"A", " ", "a">>, <<"a", "_", "a">> }
PolicyNames == { <<"A">>, <<"a">> }
ConfigPaths == { None, S_g, S_b, S_n }
CommandNames == { "velocity" }

\* The number of add_ calls that built the policies, scenes or projects of a
\* list, from item n on
RECURSIVE PoliciesSize(_, _)
PoliciesSize(policies, n) ==
    IF n > Len(policies) THEN 0
    ELSE 1 + Cardinality(policies[n].commands) + PoliciesSize(policies, n + 1)

RECURSIVE ScenesSize(_, _)
ScenesSize(scenes, n) ==
    IF n > Len(scenes) THEN 0
    ELSE 1 + PoliciesSize(scenes[n].policies, 1) + ScenesSize(scenes, n + 1)

RECURSIVE ProjectsSize(_, _)
ProjectsSize(projects, n) ==
    IF n > Len(projects) THEN 0
    ELSE 1 + ScenesSize(projects[n].scenes, 1) + ProjectsSize(projects, n + 1)

BuilderSize == ProjectsSize(_projects, 1)

InitBuilder ==
    /\ CanonIdle
    /\ RewriteIdle
    /\ ArchiveIdle
    /\ SideIdle
    /\ _projects = <<>>
    /\ calls = <<>>
    /\ dist \in {NoOutput, OldOutput}
    /\ bstate = "none"
    /\ exc = "none"

\* builder.add_project(name, id=id)
AddProject ==
    /\ Len(_projects) < MaxProjects
    /\ bstate = "none"
    /\ BuilderSize < MaxCalls
    /\ \E name \in ProjectNames, id \in ProjectIds :
           /\ _projects' = Append(_projects, ProjectConfig(name, project_id(_projects, name, id)))
           /\ calls' = Append(calls, [name |-> name, id |-> id])
           /\ exc' = "none"
    /\ UNCHANGED <<dist, bstate, canonVars, rewriteVars, archiveVars, sideVars>>

\* project.add_scene(name, model=model, spec=mjspec) on the handle of project p
AddSceneCall(p, name, model, mjspec) ==
    /\ bstate = "none"
    /\ BuilderSize < MaxCalls
    /\ Len(_projects[p].scenes) < MaxScenes
    /\ LET res == add_scene(_projects[p].scenes, name, model, mjspec)
       IN  /\ _projects' = [_projects EXCEPT ![p].scenes = res.scenes]
           /\ exc' = res.exc
    /\ UNCHANGED <<calls, dist, bstate, canonVars, rewriteVars, archiveVars, sideVars>>

AddScene ==
    \E p \in 1..Len(_projects), name \in SceneNames,
       model \in {None, MjModel}, mjspec \in {None, MjSpec} :
        AddSceneCall(p, name, model, mjspec)

\* scene.add_policy(policy, name, config_path=config_path) on the handle of
\* scene k of project p
AddPolicy ==
    /\ bstate = "none"
    /\ BuilderSize < MaxCalls
    /\ \E p \in 1..Len(_projects), name \in PolicyNames, config_path \in ConfigPaths :
         \E k \in 1..Len(_projects[p].scenes) :
           /\ Len(_projects[p].scenes[k].policies) < MaxPolicies
           /\ _projects' = [_projects EXCEPT ![p].scenes[k].policies =
                                add_policy(@, name, config_path)]
           /\ exc' = "none"
    /\ UNCHANGED <<calls, dist, bstate, canonVars, rewriteVars, archiveVars, sideVars>>

\* policy.add_command(name, inputs) on the handle of policy n of scene k of
\* project p
AddCommand ==
    /\ bstate = "none"
    /\ BuilderSize < MaxCalls
    /\ \E p \in 1..Len(_projects), name \in CommandNames :
         \E k \in 1..Len(_projects[p].scenes) :
           \E n \in 1..Len(_projects[p].scenes[k].policies) :
             /\ _projects' = [_projects EXCEPT ![p].scenes[k].policies[n] =
                                  add_command(@, name)]
             /\ exc' = "none"
    /\ UNCHANGED <<calls, dist, bstate, canonVars, rewriteVars, archiveVars, sideVars>>

\* builder.build(output_dir), once, after the last add_ call
Build ==
    /\ bstate = "none"
    /\ LET res == build(_projects, dist)
       IN  /\ bstate' = res.state
           /\ dist' = res.output
           /\ exc' = IF res.state = "built" THEN "none" ELSE res.state
    /\ UNCHANGED <<_projects, calls, canonVars, rewriteVars, archiveVars, sideVars>>

NextBuilder ==
    \/ AddProject
    \/ AddScene
    \/ AddPolicy
    \/ AddCommand
    \/ Build

SpecBuilder == InitBuilder /\ [][NextBuilder]_vars

\* C19: Builder.build saves a scene added with spec= as scene.mjz and a scene
\* added with model= as scene.mjb, under the project's directory and the
\* scene's id, and the path assets/config.json records for the scene names a
\* file that was written for it.
C19_SceneSavedUnderItsFilename ==
    [][Build /\ _projects # <<>> =>
        \A p \in 1..Len(_projects) : \A k \in 1..Len(_projects[p].scenes) :
            LET scene == _projects[p].scenes[k]
                recorded == dist'.config[p].scenes[k].path
            IN  /\ <<project_dir_name(_projects[p]), name2id(scene.name), scene_filename(scene)>>
                       \in DOMAIN dist'.files
                /\ recorded = <<name2id(scene.name), scene_filename(scene)>>
                /\ <<project_dir_name(_projects[p]), recorded[1], recorded[2]>>
                       \in DOMAIN dist'.files]_vars

\* C20: after any sequence of add_project calls, project k has the name of
\* call k; its id is the id given to call k when one was given; without one it
\* is None exactly when k is the first call and name2id(name) otherwise; and
\* get_projects lists the projects in the order of the calls.
C20_ProjectIdRule ==
    /\ Len(_projects) = Len(calls)
    /\ Len(get_projects(_projects)) = Len(calls)
    /\ \A k \in 1..Len(calls) :
           /\ get_projects(_projects)[k] = _projects[k]
           /\ _projects[k].name = calls[k].name
           /\ calls[k].id # None => _projects[k].id = calls[k].id
           /\ calls[k].id = None =>
                  /\ _projects[k].id = None <=> k = 1
                  /\ k > 1 => _projects[k].id = name2id(calls[k].name)

C20_Witness ==
    /\ Len(calls) = 2
    /\ calls[1].id = None /\ _projects[1].id = None
    /\ calls[2] = [name |-> <<"a", "-", "A">>, id |-> None]
    /\ _projects[2].id = <<"a", "_", "a">>

\* C21: Builder.build on a builder without projects raises ValueError and has
\* no effect on the filesystem: the output directory is as it was, absent when
\* it was absent and with the files it held when it existed.
C21_EmptyBuildRaisesUntouched ==
    [][Build /\ _projects = <<>> =>
        /\ bstate' = "ValueError"
        /\ exc' = "ValueError"
        /\ dist' = dist]_vars

C21_Witness ==
    /\ bstate = "ValueError"
    /\ _projects = <<>>
    /\ dist = OldOutput

\* C22: add_scene with both of model and spec or with neither raises
\* ValueError and leaves the scene list of its project as it was; so every
\* scene stored in a project has exactly one of model and spec set.
C22_AddSceneNeedsExactlyOne ==
    /\ [](\A p \in 1..Len(_projects) : \A k \in 1..Len(_projects[p].scenes) :
             (_projects[p].scenes[k].model = None) # (_projects[p].scenes[k].spec = None))
    /\ [][\A p \in 1..Len(_projects), name \in SceneNames,
             model \in {None, MjModel}, mjspec \in {None, MjSpec} :
              AddSceneCall(p, name, model, mjspec) /\ (model = None) = (mjspec = None)
                  => exc' = "ValueError" /\ _projects' = _projects]_vars

C22_Witness ==
    /\ exc = "ValueError"
    /\ bstate = "none"
    /\ \E p \in 1..Len(_projects) : Len(_projects[p].scenes) = 1

\* C29: in a build no two projects share a project directory (none is the
\* root assets directory), no two scenes of a project share a scene
\* directory and no two policies of a scene share a policy file.
C29_OutputPathsDistinct ==
    bstate = "built" =>
        \A p \in 1..Len(_projects) :
            /\ project_dir_name(_projects[p]) # ASSETS
            /\ \A q \in 1..Len(_projects) :
                   p # q => project_dir_name(_projects[p]) # project_dir_name(_projects[q])
            /\ \A k \in 1..Len(_projects[p].scenes) :
                   LET scene == _projects[p].scenes[k]
                   IN  /\ \A m \in 1..Len(_projects[p].scenes) :
                              k # m => name2id(scene.name) # name2id(_projects[p].scenes[m].name)
                       /\ \A n, j \in 1..Len(scene.policies) :
                              n # j => name2id(scene.policies[n].name)
                                           # name2id(scene.policies[j].name)

\* C30: after a build every policy entry of config.json that carries a
\* "config" path has the file of that path in the scene's output directory,
\* and the file holds the policy's command groups when the policy has any.
C30_ConfigPathsAreWritten ==
    bstate = "built" =>
        \A p \in 1..Len(_projects) : \A k \in 1..Len(_projects[p].scenes) :
            \A n \in 1..Len(_projects[p].scenes[k].policies) :
                \A c \in dist.config[p].scenes[k].policies[n].config :
                    LET written == <<project_dir_name(_projects[p]), c[1], c[2]>>
                    IN  /\ written \in DOMAIN dist.files
                        /\ _projects[p].scenes[k].policies[n].commands
                               \subseteq dist.files[written].commands

\* C25: _rewrite_xml_paths rewrites an absolute file reference, one that
\* starts with "/" or with a drive letter, ":" and a separator, to its
\* basename, whatever the hint that governs it.
C25_AbsoluteRefBecomesBasename ==
    rpc = "done" =>
        \A i \in 1..Len(xml_in) :
            \A a \in FileAttrs(xml_in[i].tag) \cap DOMAIN xml_in[i].attrib :
                LET f == replace(xml_in[i].attrib[a], BACKSLASH, SLASH)
                IN  is_absolute(f) => xml_out[i].attrib[a] = basename(f)

\* The declarations, by position in reading order, whose file exists
Found == {i \in 1..Len(DeclRefs(orig)) : Exists(orig, DeclRefs(orig)[i])}

\* The found declarations whose key is also the key of another found one
Colliding ==
    {i \in Found : \E j \in Found : j # i /\ KeyOf(DeclRefs(orig)[j]) = KeyOf(DeclRefs(orig)[i])}

\* The bytes of the found declaration read last among those with the key of i
LastBytes(i) ==
    LET refs == DeclRefs(orig)
        last_j == CHOOSE j \in Found :
                      /\ KeyOf(refs[j]) = KeyOf(refs[i])
                      /\ \A n \in Found : KeyOf(refs[n]) = KeyOf(refs[i]) => n <= j
    IN  read_bytes(fs, StatOf(orig, refs[last_j]))

\* C23: when several declarations with existing (readable) files get the same
\* key, collect_spec_assets returns and to_zip_deflated writes, without an
\* error, and the returned map and the archive each hold exactly one entry
\* for the key, with the bytes of the declaration read last in the order
\* meshes, textures (file, then cube faces by index), heightfields, skins.
C23_CollisionLastWins ==
    (Colliding # {} /\ AssetsReadable) =>
        /\ cstate # "none" =>
               /\ cstate = "returned"
               /\ \A i \in Colliding :
                      /\ Cardinality({k \in 1..Len(assets) :
                                         assets[k][1] = KeyOf(DeclRefs(orig)[i])}) = 1
                      /\ dict_get(assets, KeyOf(DeclRefs(orig)[i])) = LastBytes(i)
        /\ zstate # "none" =>
               /\ zstate = "written"
               /\ \A i \in Colliding :
                      /\ Cardinality({k \in 1..Len(zip) :
                                         zip[k].name = KeyOf(DeclRefs(orig)[i])}) = 1
                      /\ \A k \in 1..Len(zip) :
                             zip[k].name = KeyOf(DeclRefs(orig)[i]) =>
                                 zip[k].contents = Bytes(LastBytes(i))

\* C24: when reading an asset file raises during to_zip_deflated, the call
\* raises and has written nothing: the disk is as it was (a path target is
\* not created, an existing one keeps its content, no parent directory is
\* made) and the target has received no entry.
C24_ReadFailureWritesNothing ==
    [][ToZipDeflated /\ zip_collect(spec, fs).raised =>
        /\ zstate' = "raised"
        /\ fs' = fs
        /\ zip' = <<>>]_vars

C24_Witness ==
    /\ zstate = "raised"
    /\ zip_collect(orig, fs).raised
    /\ file \in {PathTarget(S_o_p_z), PathTarget(S_abs_h_a)}
    /\ fs[Loc_h_a].bytes = "B1"

\* C27: the asset entries of the archive written by to_zip_deflated, as names
\* with bytes, are the items of the mapping collect_spec_assets returns for
\* the same description and disk.
C27_ArchiveAssetsAreCollectedAssets ==
    (zstate = "written" /\ cstate = "returned") =>
        {<<zip[i].name, zip[i].contents.bytes>> : i \in AssetEntries(zip)}
            = {<<assets[k][1], assets[k][2]>> : k \in 1..Len(assets)}

(***************************************************************************)
(* The collector of asset_collector.py, next to the collector of utils.py  *)
(***************************************************************************)
\* _read(dir_hint, filename) of asset_collector.collect_spec_assets: the key
\* is rel as os.path.join made it
ac_read(files, base_dir, acc, dir_hint, filename) ==
    IF acc.raised \/ filename = <<>> THEN acc
    ELSE LET rel == rel_path(dir_hint, filename)
             full == join(base_dir, rel)
             st == os_stat(files, full)
         IN  IF ~ isfile(files, st) THEN acc
             ELSE IF ~ can_read(files, st) THEN Collecting(acc.assets, TRUE)
             ELSE Collecting(dict_set(acc.assets, rel, read_bytes(files, st)), FALSE)

RECURSIVE ac_read_each(_, _, _, _, _, _)
ac_read_each(files, base_dir, acc, dir_hint, names, k) ==
    IF k > Len(names) THEN acc
    ELSE ac_read_each(files, base_dir,
                      ac_read(files, base_dir, acc, dir_hint, names[k]),
                      dir_hint, names, k + 1)

RECURSIVE ac_read_textures(_, _, _, _, _, _)
ac_read_textures(files, base_dir, acc, texture_dir, textures, k) ==
    IF k > Len(textures) THEN acc
    ELSE ac_read_textures(files, base_dir,
             ac_read_each(files, base_dir,
                          ac_read(files, base_dir, acc, texture_dir, textures[k].file),
                          texture_dir, textures[k].cubefiles, 1),
             texture_dir, textures, k + 1)

\* asset_collector.collect_spec_assets(spec)
ac_collect_spec_assets(s, files) ==
    LET base_dir == s.modelfiledir
        a1 == ac_read_each(files, base_dir, Collecting(<<>>, FALSE), s.meshdir, s.meshes, 1)
        a2 == ac_read_textures(files, base_dir, a1, s.texturedir, s.textures, 1)
        a3 == ac_read_each(files, base_dir, a2, <<>>, s.hfields, 1)
    IN  ac_read_each(files, base_dir, a3, <<>>, s.skins, 1)

InitCollectors ==
    /\ CanonIdle
    /\ RewriteIdle
    /\ BuilderIdle
    /\ spec \in Descriptions
    /\ orig = spec
    /\ fs \in FileSystems
    /\ assets = <<>>
    /\ cstate = "none"
    /\ zip = <<>>
    /\ zstate = "off"
    /\ file = <<>>
    /\ now = 0
    /\ zip2 = <<>>
    /\ threads = <<>>
    /\ ac_assets = <<>>
    /\ ac_state = "none"

\* ac_assets = muwanx.asset_collector.collect_spec_assets(spec)
AssetCollectorCollect ==
    /\ ac_state = "none"
    /\ LET res == ac_collect_spec_assets(spec, fs)
       IN  IF res.raised
           THEN ac_assets' = <<>> /\ ac_state' = "raised"
           ELSE ac_assets' = res.assets /\ ac_state' = "returned"
    /\ UNCHANGED <<threads, archiveVars, canonVars, rewriteVars, builderVars>>

NextCollectors ==
    \/ CollectSpecAssets
    \/ AssetCollectorCollect

SpecCollectors == InitCollectors /\ [][NextCollectors]_vars

\* C28: asset_collector.collect_spec_assets and utils.collect_spec_assets
\* return the same keys with the same bytes for every description and disk
\* (and raise together), so the keys of either have no ".." segment and no
\* leading "/".
C28_CollectorsAgree ==
    (cstate # "none" /\ ac_state = "returned") =>
        /\ cstate = "returned"
        /\ {<<ac_assets[k][1], ac_assets[k][2]>> : k \in 1..Len(ac_assets)}
               = {<<assets[k][1], assets[k][2]>> : k \in 1..Len(assets)}
        /\ \A k \in 1..Len(ac_assets) :
               /\ ~ HasDotDotSegment(ac_assets[k][1])
               /\ ~ startswith(ac_assets[k][1], <<SLASH>>)

(***************************************************************************)
(* Two invocations of to_zip_deflated running concurrently on one          *)
(* description, each with its own target.  A thread is its position in the *)
(* function and its locals; a step is a stretch of the function between    *)
(* two accesses to what the threads share, the description and the disk.   *)
(***************************************************************************)
Tids == {1, 2}
ThreadTarget(t) == IF t = 1 THEN PathTarget(S_o_z) ELSE PathTarget(S_d_z)

Thread(t) ==
    [pc |-> "start", target |-> ThreadTarget(t),
     base_dir |-> <<>>, mesh_dir |-> <<>>, texture_dir |-> <<>>,
     files_to_zip |-> <<>>, xml_str |-> <<>>, archive |-> <<>>]

ConcurrentDescriptions ==
    {s \in Descriptions :
        /\ s.modelname = S_m
        /\ s.hfields = <<>> /\ s.skins = <<>>
        /\ s.textures \in {<<>>, << Texture(S_up_a, [NoCubeFiles EXCEPT ![6] = S_a]) >>}}

InitConcurrent ==
    /\ CanonIdle
    /\ RewriteIdle
    /\ BuilderIdle
    /\ spec \in ConcurrentDescriptions
    /\ orig = spec
    /\ fs \in {FsAll, [FsAll EXCEPT ![Loc_d_a] = File("B2", FALSE)]}
    /\ assets = <<>>
    /\ cstate = "off"
    /\ zip = <<>>
    /\ zstate = "off"
    /\ file = <<>>
    /\ now = 0
    /\ zip2 = <<>>
    /\ threads = [t \in Tids |-> Thread(t)]
    /\ ac_assets = <<>>
    /\ ac_state = "off"

\* base_dir = spec.modelfiledir or ""; mesh_dir = spec.meshdir or ""
ThreadReadMeshDir(t) ==
    /\ threads[t].pc = "start"
    /\ threads' = [threads EXCEPT ![t].pc = "texture_dir",
                                  ![t].base_dir = spec.modelfiledir,
                                  ![t].mesh_dir = spec.meshdir]
    /\ UNCHANGED <<archiveVars, ac_assets, ac_state, canonVars, rewriteVars, builderVars>>

\* texture_dir = spec.texturedir or ""
ThreadReadTextureDir(t) ==
    /\ threads[t].pc = "texture_dir"
    /\ threads' = [threads EXCEPT ![t].pc = "collect",
                                  ![t].texture_dir = spec.texturedir]
    /\ UNCHANGED <<archiveVars, ac_assets, ac_state, canonVars, rewriteVars, builderVars>>

\* The four collection loops, under the hints the thread has read
ThreadCollect(t) ==
    /\ threads[t].pc = "collect"
    /\ LET res == zip_collect([spec EXCEPT !.modelfiledir = threads[t].base_dir,
                                           !.meshdir = threads[t].mesh_dir,
                                           !.texturedir = threads[t].texture_dir], fs)
       IN  threads' = [threads EXCEPT ![t].pc = IF res.raised THEN "raised" ELSE "xml",
                                      ![t].files_to_zip = res.assets]
    /\ UNCHANGED <<archiveVars, ac_assets, ac_state, canonVars, rewriteVars, builderVars>>

\* xml_str = spec.to_xml()
ThreadToXml(t) ==
    /\ threads[t].pc = "xml"
    /\ \E normalise \in BOOLEAN :
           /\ spec' = description_after_zip(spec, normalise)
           /\ threads' = [threads EXCEPT ![t].pc = "write",
                                         ![t].xml_str = to_xml(spec')]
    /\ UNCHANGED <<orig, fs, assets, cstate, zip, zstate, file, now, zip2,
                   ac_assets, ac_state, canonVars, rewriteVars, builderVars>>

\* The rewrite of xml_str under the thread's hints, its entry in files_to_zip
\* and the ZIP written to the thread's target
ThreadWrite(t) ==
    /\ threads[t].pc = "write"
    /\ LET th == threads[t]
           items == dict_set(th.files_to_zip, spec.modelname \o XML_EXT,
                             Text(_rewrite_xml_paths(th.xml_str, th.mesh_dir, th.texture_dir)))
           archive == write_zip(items, now)
           out == write_target(fs, th.target, archive)
       IN  /\ fs' = out.files
           /\ threads' = [threads EXCEPT ![t].pc = IF out.ok THEN "done" ELSE "raised",
                                         ![t].files_to_zip = items,
                                         ![t].archive = IF out.ok THEN archive ELSE <<>>]
    /\ UNCHANGED <<spec, orig, assets, cstate, zip, zstate, file, now, zip2,
                   ac_assets, ac_state, canonVars, rewriteVars, builderVars>>

NextConcurrent ==
    \E t \in Tids :
        \/ ThreadReadMeshDir(t)
        \/ ThreadReadTextureDir(t)
        \/ ThreadCollect(t)
        \/ ThreadToXml(t)
        \/ ThreadWrite(t)

SpecConcurrent == InitConcurrent /\ [][NextConcurrent]_vars

\* The archive to_zip_deflated writes for the description when it runs alone
AloneArchive == write_zip(files_to_zip(orig, zip_collect(orig, fs).assets, FALSE), now)

\* Each finished invocation has written what it writes alone, and raised only
\* if it raises alone
SameAsAlone ==
    \A t \in Tids :
        /\ threads[t].pc = "done" =>
               /\ ~ zip_collect(orig, fs).raised
               /\ threads[t].archive = AloneArchive
        /\ threads[t].pc = "raised" => zip_collect(orig, fs).raised

\* C26 as stated: under every interleaving each invocation produces the
\* archive it produces alone, and the description has afterwards the
\* directory hints and file references it had before.
C26_NoSharedMutableState ==
    /\ SameAsAlone
    /\ spec = orig

\* C26 amended: under every interleaving each invocation produces the archive
\* it produces alone; the description is shared and does change, but only by
\* the trailing "/" that to_xml() may append to meshdir and texturedir, which
\* an invocation that reads the hints afterwards resolves to the same files
\* and keys.
C26_SameArchivesHintsNormalised ==
    /\ SameAsAlone
    /\ spec.meshdir \in {orig.meshdir, orig.meshdir \o <<SLASH>>}
    /\ spec.texturedir \in {orig.texturedir, orig.texturedir \o <<SLASH>>}
    /\ [spec EXCEPT !.meshdir = orig.meshdir, !.texturedir = orig.texturedir] = orig

C26_Witness ==
    /\ \A t \in Tids : threads[t].pc = "done"
    /\ threads[1].mesh_dir = orig.meshdir
    /\ threads[2].mesh_dir # orig.meshdir
    /\ \E i \in AssetEntries(threads[2].archive) : threads[2].archive[i].contents.bytes = "B2"

====
